---- MODULE Spec2Model ----
(***************************************************************************)
(* Model of scripts/migrate-mcp-to-services.py: a mapping table            *)
(* (TOOL_MAPPINGS), a renderer (generate_tool_impl) and an emitter (main)  *)
(* that prints a header, one TypeScript registration block per table       *)
(* entry in sorted order, and a trailer with the entry count.              *)
(*                                                                         *)
(* Python str values are TLA+ strings; concatenation is \o, and            *)
(* SubSeq(s, i, i) is the one-character string at position i.              *)
(***************************************************************************)
EXTENDS Integers, Sequences, FiniteSets, TLC

VARIABLES
    decl,           \* the dict display of lines 8-45 as written: <<key, value>> pairs in declared order
    TOOL_MAPPINGS,  \* the dict object built from it: <<key, value>> pairs in insertion order
    pc,             \* position of main(): "header", "sort", "for", "print", "done"
    items,          \* the list returned by sorted(TOOL_MAPPINGS.items())
    idx,            \* 1-based position of the for loop in items
    code,           \* main's local variable code
    calls,          \* history: argument tuples of the calls of generate_tool_impl in this run
    stdout,         \* what this run wrote to standard output, one element per print call
    run,            \* number of the current run of the script
    prevOut         \* stdout of the previous run (<<>> in the first run)

vars == <<decl, TOOL_MAPPINGS, pc, items, idx, code, calls, stdout, run, prevOut>>

-----------------------------------------------------------------------------
(* Bounds *)

MaxEntries == 2     \* longest dict display drawn in Init
MaxArgs == 3        \* length of the longest argument list drawn in Init
MaxRuns == 2        \* number of runs of the script in one behaviour

-----------------------------------------------------------------------------
(* Python built-ins used by the script *)

Ascii ==
    "\n" \o " !\"#$%&'()*+,-./0123456789:;<=>?@ABCDEFGHIJKLMNOPQRSTUVWXYZ[\\]^_abcdefghijklmnopqrstuvwxyz{|}~"

\* ord(c) up to an order-preserving renumbering: the position of c in Ascii,
\* which lists the characters of 7-bit text in ascending code-point order
Code(c) == CHOOSE i \in 1..Len(Ascii) : SubSeq(Ascii, i, i) = c

Min(S) == CHOOSE m \in S : \A n \in S : m <= n

\* str.__lt__: compare at the first differing position, else the shorter is less
StrLess(a, b) ==
    LET n == IF Len(a) < Len(b) THEN Len(a) ELSE Len(b)
        diff == {i \in 1..n : SubSeq(a, i, i) # SubSeq(b, i, i)}
    IN  IF diff = {} THEN Len(a) < Len(b)
        ELSE Code(SubSeq(a, Min(diff), Min(diff))) < Code(SubSeq(b, Min(diff), Min(diff)))

\* list.__lt__ / tuple.__lt__ on sequences of str
StrSeqLess(a, b) ==
    LET n == IF Len(a) < Len(b) THEN Len(a) ELSE Len(b)
        diff == {i \in 1..n : a[i] # b[i]}
    IN  IF diff = {} THEN Len(a) < Len(b)
        ELSE StrLess(a[Min(diff)], b[Min(diff)])

\* tuple.__lt__ on the value tuples (service, method, args)
ValueLess(v, w) ==
    IF v[1] # w[1] THEN StrLess(v[1], w[1])
    ELSE IF v[2] # w[2] THEN StrLess(v[2], w[2])
    ELSE StrSeqLess(v[3], w[3])

\* variant: the pairs are ordered by their value before their key
ItemLess_valueFirst(x, y) ==
    IF x[2] # y[2] THEN ValueLess(x[2], y[2]) ELSE StrLess(x[1], y[1])

\* tuple.__lt__ on the (key, value) pairs that dict.items() yields
ItemLess(x, y) ==
    IF x[1] # y[1] THEN StrLess(x[1], y[1]) ELSE ValueLess(x[2], y[2])

\* variant: d.setdefault(k, v), an existing key keeps its first value
DictSet_keepFirst(d, k, v) ==
    IF \E i \in 1..Len(d) : d[i][1] = k THEN d ELSE Append(d, <<k, v>>)

\* d[k] = v on a dict kept as a sequence of pairs in insertion order:
\* an existing key keeps its position and takes the new value
DictSet(d, k, v) ==
    IF \E i \in 1..Len(d) : d[i][1] = k
    THEN [i \in 1..Len(d) |-> IF d[i][1] = k THEN <<k, v>> ELSE d[i]]
    ELSE Append(d, <<k, v>>)

RECURSIVE DictDisplay(_)
\* evaluation of a dict display {k1: v1, k2: v2, ...}, left to right
DictDisplay(pairs) ==
    IF pairs = <<>> THEN <<>>
    ELSE LET n == Len(pairs)
         IN  DictSet(DictDisplay(SubSeq(pairs, 1, n - 1)), pairs[n][1], pairs[n][2])

\* insertion of x into an ascending list, after every element not greater than x
InsertSorted(s, x) ==
    LET k == Cardinality({i \in 1..Len(s) : ~ItemLess(x, s[i])})
    IN  SubSeq(s, 1, k) \o <<x>> \o SubSeq(s, k + 1, Len(s))

RECURSIVE sorted(_)
\* sorted(iterable): a new ascending list; stable
sorted(s) ==
    IF s = <<>> THEN <<>>
    ELSE InsertSorted(sorted(SubSeq(s, 1, Len(s) - 1)), s[Len(s)])

RECURSIVE join_noSpace(_, _)
\* variant: the separator is "," whatever sep is
join_noSpace(sep, list) ==
    IF list = <<>> THEN ""
    ELSE IF Len(list) = 1 THEN list[1]
    ELSE list[1] \o "," \o join_noSpace(sep, Tail(list))

RECURSIVE join_trailing(_, _)
\* variant: every element, the last included, is followed by sep
join_trailing(sep, list) ==
    IF list = <<>> THEN ""
    ELSE list[1] \o sep \o join_trailing(sep, Tail(list))

RECURSIVE join(_, _)
\* sep.join(list)
join(sep, list) ==
    IF list = <<>> THEN ""
    ELSE IF Len(list) = 1 THEN list[1]
    ELSE list[1] \o sep \o join(sep, Tail(list))

Digits == "0123456789"

RECURSIVE str(_)
\* str(n) for an int n >= 0, as the f-string of line 73 formats it
str(n) ==
    IF n < 10 THEN SubSeq(Digits, n + 1, n + 1)
    ELSE str(n \div 10) \o SubSeq(Digits, (n % 10) + 1, (n % 10) + 1)

\* variant: print(s, end="")
print_noEnd(s) == s

\* print(s): the text written by one call, s followed by the default end "\n"
print(s) == s \o "\n"

-----------------------------------------------------------------------------
(* The script *)

\* variant: the input schema is looked up by method name
generate_tool_impl_wrongSchema(tool_name, service_name, method_name, method_args) ==
    LET args_str == join(", ", method_args)
    IN  "  server.registerTool(\n"
        \o "    '" \o tool_name \o "',\n"
        \o "    {\n"
        \o "      description: schemas." \o tool_name \o ".description,\n"
        \o "      inputSchema: schemas." \o method_name \o "\n"
        \o "    },\n"
        \o "    async (args, extra) => {\n"
        \o "      return mcpToolWrapper('" \o tool_name \o "', logger, extra.sessionId, async () => {\n"
        \o "        const result = await services." \o service_name \o "." \o method_name
               \o "(" \o args_str \o ");\n"
        \o "        return result;\n"
        \o "      });\n"
        \o "    }\n"
        \o "  );\n"

\* lines 47-64
generate_tool_impl(tool_name, service_name, method_name, method_args) ==
    LET args_str == join(", ", method_args)
    IN  "  server.registerTool(\n"
        \o "    '" \o tool_name \o "',\n"
        \o "    {\n"
        \o "      description: schemas." \o tool_name \o ".description,\n"
        \o "      inputSchema: schemas." \o tool_name \o "\n"
        \o "    },\n"
        \o "    async (args, extra) => {\n"
        \o "      return mcpToolWrapper('" \o tool_name \o "', logger, extra.sessionId, async () => {\n"
        \o "        const result = await services." \o service_name \o "." \o method_name
               \o "(" \o args_str \o ");\n"
        \o "        return result;\n"
        \o "      });\n"
        \o "    }\n"
        \o "  );\n"

\* line 67
HeaderText == "// Generated MCP tool registrations using services\n"

\* variant: the count is one too high
TrailerText_offByOne(n) == "\n// Total tools migrated: " \o str(n + 1)

\* line 73
TrailerText(n) == "\n// Total tools migrated: " \o str(n)

\* line 67: print(header)
PrintHeader ==
    /\ pc = "header"
    /\ stdout' = Append(stdout, print(HeaderText))
    /\ pc' = "sort"
    /\ UNCHANGED <<decl, TOOL_MAPPINGS, items, idx, code, calls, run, prevOut>>

\* variant: the loop iterates TOOL_MAPPINGS.items() without sorted()
SortItems_unsorted ==
    /\ pc = "sort"
    /\ items' = TOOL_MAPPINGS
    /\ idx' = 1
    /\ pc' = "for"
    /\ UNCHANGED <<decl, TOOL_MAPPINGS, code, calls, stdout, run, prevOut>>

\* line 69: sorted(TOOL_MAPPINGS.items()) is evaluated once, on entry to the loop
SortItems ==
    /\ pc = "sort"
    /\ items' = sorted(TOOL_MAPPINGS)
    /\ idx' = 1
    /\ pc' = "for"
    /\ UNCHANGED <<decl, TOOL_MAPPINGS, code, calls, stdout, run, prevOut>>

\* variant: the renderer empties the argument list it is given (method_args.clear())
Generate_mutating ==
    /\ pc = "for"
    /\ idx <= Len(items)
    /\ LET tool_name == items[idx][1]
           service == items[idx][2][1]
           method == items[idx][2][2]
           args == items[idx][2][3]
       IN  /\ code' = generate_tool_impl(tool_name, service, method, args)
           /\ calls' = Append(calls, <<tool_name, service, method, args>>)
           /\ TOOL_MAPPINGS' = DictSet(TOOL_MAPPINGS, tool_name, <<service, method, <<>>>>)
           /\ items' = [items EXCEPT ![idx] = <<tool_name, <<service, method, <<>>>>>>]
    /\ pc' = "print"
    /\ UNCHANGED <<decl, idx, stdout, run, prevOut>>

\* lines 69-70: next item is unpacked and rendered
Generate ==
    /\ pc = "for"
    /\ idx <= Len(items)
    /\ LET tool_name == items[idx][1]
           service == items[idx][2][1]
           method == items[idx][2][2]
           args == items[idx][2][3]
       IN  /\ code' = generate_tool_impl(tool_name, service, method, args)
           /\ calls' = Append(calls, <<tool_name, service, method, args>>)
    /\ pc' = "print"
    /\ UNCHANGED <<decl, TOOL_MAPPINGS, items, idx, stdout, run, prevOut>>

\* line 71: print(code)
PrintCode ==
    /\ pc = "print"
    /\ stdout' = Append(stdout, print(code))
    /\ idx' = idx + 1
    /\ pc' = "for"
    /\ UNCHANGED <<decl, TOOL_MAPPINGS, items, code, calls, run, prevOut>>

\* line 73: the loop is exhausted; print the trailer
PrintTrailer ==
    /\ pc = "for"
    /\ idx > Len(items)
    /\ stdout' = Append(stdout, print(TrailerText(Len(TOOL_MAPPINGS))))
    /\ pc' = "done"
    /\ UNCHANGED <<decl, TOOL_MAPPINGS, items, idx, code, calls, run, prevOut>>

-----------------------------------------------------------------------------
(* Tables *)

ToolNames == {"list_zoku", "disentangle", "get_matrix"}

ArgPool == <<"args.entanglement_id", "args.zoku_id", "args.role", "args.confirm">>

\* values with an empty, a one-element and a MaxArgs-element argument list
Values ==
    { <<"zoku", "list", <<>>>>,
      <<"zoku", "list", <<"args">>>>,
      <<"entanglements", "removeFromMatrix", SubSeq(ArgPool, 1, MaxArgs)>> }

Entries == {<<t, v>> : t \in ToolNames, v \in Values}

Decls == UNION {[1..n -> Entries] : n \in 0..MaxEntries}

\* the same items declared in another order
Redeclarations(d) ==
    {s \in [1..Len(d) -> {d[i] : i \in 1..Len(d)}] : \A i, j \in 1..Len(d) : s[i] = s[j] => i = j}

\* a process start: the module body (lines 8-45) runs, then main() is entered
Start(d) ==
    /\ decl' = d
    /\ TOOL_MAPPINGS' = DictDisplay(d)
    /\ pc' = "header"
    /\ items' = <<>>
    /\ idx' = 0
    /\ code' = ""
    /\ calls' = <<>>
    /\ stdout' = <<>>

Init ==
    /\ decl \in Decls
    /\ TOOL_MAPPINGS = DictDisplay(decl)
    /\ pc = "header"
    /\ items = <<>>
    /\ idx = 0
    /\ code = ""
    /\ calls = <<>>
    /\ stdout = <<>>
    /\ run = 1
    /\ prevOut = <<>>

\* lines 75-76: the script is run again, its table holding the same items
Rerun ==
    /\ pc = "done"
    /\ run < MaxRuns
    /\ \E d \in Redeclarations(TOOL_MAPPINGS) : Start(d)
    /\ run' = run + 1
    /\ prevOut' = stdout

Next == PrintHeader \/ SortItems \/ Generate \/ PrintCode \/ PrintTrailer \/ Rerun

Spec == Init /\ [][Next]_vars

\* lines 8-45: the dict display shipped in the script, in declared order
ShippedDecl ==
    <<
      <<"list_entanglements", <<"entanglements", "list", <<"args">>>>>>,
      <<"get_entanglement", <<"entanglements", "get", <<"args.id", "args.include_children_qupts", "args.detailed ? 50 : 20">>>>>>,
      <<"get_child_entanglements", <<"entanglements", "getChildren", <<"args.parent_id", "args.recursive">>>>>>,
      <<"create_entanglement", <<"entanglements", "create", <<"args">>>>>>,
      <<"update_entanglement", <<"entanglements", "update", <<"args.id", "args">>>>>>,
      <<"move_entanglement", <<"entanglements", "move", <<"args.id", "args.new_parent_id">>>>>>,
      <<"delete_entanglement", <<"entanglements", "delete", <<"args.id", "args.confirm">>>>>>,
      <<"get_matrix", <<"entanglements", "getMatrix", <<"args.entanglement_id">>>>>>,
      <<"entangle", <<"entanglements", "assignToMatrix", <<"args.entanglement_id", "args">>>>>>,
      <<"disentangle", <<"entanglements", "removeFromMatrix", <<"args.entanglement_id", "args.zoku_id", "args.role">>>>>>,
      <<"get_attributes", <<"entanglements", "getAttributes", <<"args.entanglement_id">>>>>>,
      <<"list_sources", <<"entanglements", "listSources", <<"args.entanglement_id">>>>>>,
      <<"list_zoku", <<"zoku", "list", <<"args">>>>>>,
      <<"create_zoku", <<"zoku", "create", <<"args">>>>>>,
      <<"get_entangled", <<"zoku", "get", <<"args.id">>>>>>,
      <<"list_qupts", <<"qupts", "list", <<"args">>>>>>,
      <<"create_qupt", <<"qupts", "create", <<"args">>>>>>,
      <<"add_jewel", <<"jewels", "create", <<"args">>>>>>,
      <<"list_jewels", <<"jewels", "list", <<"args">>>>>>,
      <<"get_jewel", <<"jewels", "get", <<"args.id">>>>>>,
      <<"update_jewel", <<"jewels", "update", <<"args.id", "args">>>>>>,
      <<"delete_jewel", <<"jewels", "delete", <<"args.id">>>>>>,
      <<"get_jewel_usage", <<"jewels", "getUsage", <<"args.id">>>>>>,
      <<"add_source", <<"sources", "create", <<"args.entanglement_id", "args">>>>>>,
      <<"sync_source", <<"sources", "sync", <<"args.source_id">>>>>>,
      <<"remove_source", <<"sources", "delete", <<"args.source_id">>>>>>,
      <<"toggle_source", <<"sources", "update", <<"args.source_id", "{ enabled: args.enabled }">>>>>>
    >>

\* the shipped items declared in the orders obtained by moving the first k to the end
ShippedOrders ==
    {SubSeq(ShippedDecl, k + 1, Len(ShippedDecl)) \o SubSeq(ShippedDecl, 1, k) :
         k \in 0..(Len(ShippedDecl) - 1)}

InitShipped ==
    /\ decl \in ShippedOrders
    /\ TOOL_MAPPINGS = DictDisplay(decl)
    /\ pc = "header"
    /\ items = <<>>
    /\ idx = 0
    /\ code = ""
    /\ calls = <<>>
    /\ stdout = <<>>
    /\ run = 1
    /\ prevOut = <<>>

\* one run of main()
NextMain == PrintHeader \/ SortItems \/ Generate \/ PrintCode \/ PrintTrailer

SpecShipped == InitShipped /\ [][NextMain]_vars

TypeOK ==
    /\ pc \in {"header", "sort", "for", "print", "done"}
    /\ run \in 1..MaxRuns

-----------------------------------------------------------------------------
(* Reading the output text back *)

StartsWith(s, p) == Len(s) >= Len(p) /\ SubSeq(s, 1, Len(p)) = p

EndsWith(s, p) == Len(s) >= Len(p) /\ SubSeq(s, Len(s) - Len(p) + 1, Len(s)) = p

\* the positions at which p occurs in s
Occurrences(s, p) == {i \in 1..(Len(s) - Len(p) + 1) : SubSeq(s, i, i + Len(p) - 1) = p}

Contains(s, p) == Occurrences(s, p) # {}

\* s after the first occurrence of open
After(s, open) == SubSeq(s, Min(Occurrences(s, open)) + Len(open), Len(s))

\* s before the first occurrence of close
Before(s, close) == SubSeq(s, 1, Min(Occurrences(s, close)) - 1)

HasBetween(s, open, close) == Contains(s, open) /\ Contains(After(s, open), close)

\* the text between the first open and the first close after it
Between(s, open, close) == Before(After(s, open), close)

RECURSIVE SplitArgs(_)
\* the pieces of an argument text separated by ", " ("" has no pieces)
SplitArgs(t) ==
    IF t = "" THEN <<>>
    ELSE IF Contains(t, ", ") THEN <<Before(t, ", ")>> \o SplitArgs(After(t, ", "))
    ELSE <<t>>

RECURSIVE ParseInt(_)
\* the number a non-empty string of decimal digits denotes
ParseInt(t) ==
    LET last == Min(Occurrences(Digits, SubSeq(t, Len(t), Len(t)))) - 1
    IN  IF Len(t) = 1 THEN last ELSE 10 * ParseInt(SubSeq(t, 1, Len(t) - 1)) + last

IsDigits(t) == Len(t) > 0 /\ \A i \in 1..Len(t) : Contains(Digits, SubSeq(t, i, i))

\* the three kinds of text main() prints
IsHeaderWrite(w) == StartsWith(w, "// Generated MCP tool registrations")
IsBlockWrite(w) == StartsWith(w, "  server.registerTool(")
IsTrailerWrite(w) == StartsWith(w, "\n// Total tools migrated: ")

\* the registered name literal of a printed block
BlockToolName(w) == Between(w, "server.registerTool(\n    '", "'")

\* the number in a printed trailer
TrailerCount(w) == ParseInt(Between(w, "// Total tools migrated: ", "\n"))

\* the blocks among the writes, in the order written
Blocks(out) == SelectSeq(out, IsBlockWrite)

\* the bytes on standard output: the writes, concatenated
RECURSIVE Bytes(_)
Bytes(out) == IF out = <<>> THEN "" ELSE Bytes(SubSeq(out, 1, Len(out) - 1)) \o out[Len(out)]

Names(pairs) == {pairs[i][1] : i \in 1..Len(pairs)}

UniqueNames(pairs) == \A i, j \in 1..Len(pairs) : pairs[i][1] = pairs[j][1] => i = j

\* the service call of a rendered block: the text from the service name up to the closing ");"
CallText(block) == Between(block, "const result = await services.", ");\n")

\* line 70's current entry while its block waits to be printed
CurTool == items[idx][1]
CurService == items[idx][2][1]
CurMethod == items[idx][2][2]
CurArgs == items[idx][2][3]

-----------------------------------------------------------------------------
(* Properties *)

\* C1: any two blocks written one after the other have strictly ascending tool
\* names, and a run whose table holds the same items declared in another order
\* writes the same sequence of blocks.
C1_BlocksAscending ==
    /\ \A i \in 1..(Len(stdout) - 1) :
           IsBlockWrite(stdout[i]) /\ IsBlockWrite(stdout[i + 1])
               => StrLess(BlockToolName(stdout[i]), BlockToolName(stdout[i + 1]))
    /\ (run > 1 /\ pc = "done") => Blocks(stdout) = Blocks(prevOut)

\* a second run has finished over two entries declared in descending order
C1_Witness ==
    /\ pc = "done"
    /\ run = 2
    /\ Len(decl) = 2
    /\ StrLess(decl[2][1], decl[1][1])
    /\ Len(Blocks(stdout)) = 2
    /\ BlockToolName(stdout[2]) = decl[2][1]

\* C2: over a table of N entries with unique names a complete run calls
\* generate_tool_impl once per entry, writes N blocks, one per tool name, and
\* prints N in the trailer.
C2_OneBlockPerEntry ==
    (pc = "done" /\ UniqueNames(decl)) =>
        LET N == Len(decl)
        IN  /\ Len(calls) = N
            /\ \A k \in 1..N :
                   Cardinality({i \in 1..Len(calls) :
                       calls[i] = <<decl[k][1], decl[k][2][1], decl[k][2][2], decl[k][2][3]>>}) = 1
            /\ Len(Blocks(stdout)) = N
            /\ \A k \in 1..N :
                   Cardinality({i \in 1..Len(stdout) :
                       IsBlockWrite(stdout[i]) /\ BlockToolName(stdout[i]) = decl[k][1]}) = 1
            /\ IsTrailerWrite(stdout[Len(stdout)])
            /\ TrailerCount(stdout[Len(stdout)]) = N

\* a run over two entries with different names has finished
C2_Witness ==
    /\ pc = "done"
    /\ Len(decl) = 2
    /\ UniqueNames(decl)
    /\ Len(Blocks(stdout)) = 2
    /\ TrailerCount(stdout[Len(stdout)]) = 2

\* C4: the header is the first write and is written once; every later write but
\* the last of a finished run is a block followed by a blank line; the trailer
\* is written once, last, and only when every block has been written.
C4_HeaderBlocksTrailer ==
    /\ pc = "header" <=> stdout = <<>>
    /\ \A i \in 1..Len(stdout) :
           /\ IsHeaderWrite(stdout[i]) <=> i = 1
           /\ IsTrailerWrite(stdout[i]) <=> (pc = "done" /\ i = Len(stdout))
           /\ IsBlockWrite(stdout[i]) <=> (i > 1 /\ ~(pc = "done" /\ i = Len(stdout)))
           /\ IsBlockWrite(stdout[i]) => EndsWith(stdout[i], ";\n\n")
    /\ pc = "done" => Len(stdout) = Len(TOOL_MAPPINGS) + 2

\* a run over a non-empty table has written header, blocks and trailer
C4_Witness ==
    /\ pc = "done"
    /\ Len(stdout) = 4
    /\ IsHeaderWrite(stdout[1])
    /\ IsBlockWrite(stdout[2])
    /\ IsBlockWrite(stdout[3])
    /\ IsTrailerWrite(stdout[4])

\* C3: the block rendered for an entry contains exactly one service call,
\* <serviceName>.<methodName>(<arguments>), whose arguments are the entry's
\* argument expressions in declared order separated by ", "; the disentangle
\* entry renders entanglements.removeFromMatrix(args.entanglement_id,
\* args.zoku_id, args.role).
C3_ExactlyOneServiceCall ==
    pc = "print" =>
        LET callee == CurService \o "." \o CurMethod \o "("
        IN  /\ HasBetween(code, "const result = await services.", ");\n")
            /\ StartsWith(CallText(code), callee)
            /\ SplitArgs(SubSeq(CallText(code), Len(callee) + 1, Len(CallText(code)))) = CurArgs
            /\ Cardinality(Occurrences(code, "services.")) = 1
            /\ Cardinality(Occurrences(code, CallText(code) \o ")")) = 1
            /\ (/\ CurService = "entanglements"
                /\ CurMethod = "removeFromMatrix"
                /\ CurArgs = <<"args.entanglement_id", "args.zoku_id", "args.role">>)
                   => Contains(code,
                        "entanglements.removeFromMatrix(args.entanglement_id, args.zoku_id, args.role)")

\* the disentangle entry has been rendered
C3_Witness ==
    /\ pc = "print"
    /\ CurTool = "disentangle"
    /\ CurArgs = <<"args.entanglement_id", "args.zoku_id", "args.role">>
    /\ Contains(code,
         "services.entanglements.removeFromMatrix(args.entanglement_id, args.zoku_id, args.role);")

\* C5: a run writes what the previous run over the same items wrote, whatever
\* the order the items are declared in: at every point of the later run its
\* output is a prefix of the earlier one's, and at its end the two are equal
\* byte for byte.
C5_Deterministic ==
    run > 1 =>
        /\ Len(stdout) <= Len(prevOut)
        /\ stdout = SubSeq(prevOut, 1, Len(stdout))
        /\ pc = "done" => Bytes(stdout) = Bytes(prevOut)

\* a second run has finished over a table whose declared order is not the sorted one
C5_Witness ==
    /\ run = 2
    /\ pc = "done"
    /\ Len(TOOL_MAPPINGS) = 2
    /\ TOOL_MAPPINGS # items
    /\ Len(stdout) = 4
    /\ stdout = prevOut

\* how many declared entries carry a name
Declared(name) == {i \in 1..Len(decl) : decl[i][1] = name}

\* the blocks written for a name
BlocksOf(name) ==
    {i \in 1..Len(stdout) : IsBlockWrite(stdout[i]) /\ BlockToolName(stdout[i]) = name}

Max(S) == CHOOSE m \in S : \A n \in S : m >= n

\* C6 as stated: a table declared with two entries of one tool name yields one
\* block for each declared entry of that name, and the trailer counts them all.
C6_DuplicateBlocks ==
    (pc = "done" /\ ~UniqueNames(decl)) =>
        /\ \A name \in Names(decl) : Cardinality(BlocksOf(name)) = Cardinality(Declared(name))
        /\ TrailerCount(stdout[Len(stdout)]) = Len(decl)

\* C6 amended: a table declared with two entries of one tool name raises no
\* error; the run completes with exactly one block for each distinct name, that
\* block rendered from the last entry declared with the name, and the trailer
\* counts the distinct names.
C6_LastDeclaredWins ==
    pc = "done" =>
        /\ \A name \in Names(decl) :
               LET last == decl[Max(Declared(name))][2]
                   callee == last[1] \o "." \o last[2] \o "("
               IN  /\ Cardinality(BlocksOf(name)) = 1
                   /\ \A i \in BlocksOf(name) :
                          /\ StartsWith(CallText(stdout[i]), callee)
                          /\ SplitArgs(SubSeq(CallText(stdout[i]), Len(callee) + 1,
                                              Len(CallText(stdout[i])))) = last[3]
        /\ Len(Blocks(stdout)) = Cardinality(Names(decl))
        /\ TrailerCount(stdout[Len(stdout)]) = Cardinality(Names(decl))

\* a run has finished over a table declared with one name twice, with different values
C6_Witness ==
    /\ pc = "done"
    /\ Len(decl) = 2
    /\ decl[1][1] = decl[2][1]
    /\ decl[1][2] # decl[2][2]
    /\ Len(Blocks(stdout)) = 1
    /\ TrailerCount(stdout[Len(stdout)]) = 1

\* C8: an entry with no argument expressions renders <serviceName>.<methodName>()
\* with nothing between the parentheses, and an entry with one expression renders
\* that expression alone between them.
C8_EmptyAndSingleArgs ==
    pc = "print" =>
        LET callee == CurService \o "." \o CurMethod \o "("
        IN  /\ HasBetween(code, "const result = await services.", ");\n")
            /\ CurArgs = <<>> =>
                   /\ CallText(code) = callee
                   /\ Contains(code, "services." \o callee \o ");\n")
            /\ Len(CurArgs) = 1 =>
                   /\ CallText(code) = callee \o CurArgs[1]
                   /\ Contains(code, "services." \o callee \o CurArgs[1] \o ");\n")

\* an entry with an empty argument list has been rendered
C8_Witness ==
    /\ pc = "print"
    /\ CurArgs = <<>>
    /\ CurService = "zoku"
    /\ Contains(code, "await services.zoku.list();\n")

\* C9: in a rendered block the registered name, the description lookup, the
\* input-schema lookup and the wrapper's first argument are all the entry's
\* tool name; the wrapper gets the tool name, logger, extra.sessionId and a
\* closure that awaits the service call and returns its result; the list_zoku
\* entry renders zoku.list(args) and schemas.list_zoku.
C9_ToolNamePositions ==
    pc = "print" =>
        /\ HasBetween(code, "server.registerTool(\n    '", "'")
        /\ BlockToolName(code) = CurTool
        /\ HasBetween(code, "description: schemas.", ".description,\n")
        /\ Between(code, "description: schemas.", ".description,\n") = CurTool
        /\ HasBetween(code, "inputSchema: schemas.", "\n")
        /\ Between(code, "inputSchema: schemas.", "\n") = CurTool
        /\ HasBetween(code, "return mcpToolWrapper(", "const result = await services.")
        /\ Between(code, "return mcpToolWrapper(", "const result = await services.")
               = "'" \o CurTool \o "', logger, extra.sessionId, async () => {\n        "
        /\ HasBetween(code, "const result = await services.", ");\n")
        /\ After(code, CallText(code) \o ");\n")
               = "        return result;\n      });\n    }\n  );\n"
        /\ (CurTool = "list_zoku" /\ CurService = "zoku" /\ CurMethod = "list" /\ CurArgs = <<"args">>)
               => /\ Contains(code, "zoku.list(args)")
                  /\ Contains(code, "schemas.list_zoku")

\* the list_zoku entry has been rendered
C9_Witness ==
    /\ pc = "print"
    /\ CurTool = "list_zoku"
    /\ CurService = "zoku"
    /\ CurMethod = "list"
    /\ CurArgs = <<"args">>
    /\ Contains(code, "mcpToolWrapper('list_zoku', logger, extra.sessionId, async () => {")

\* C10: within a run no step changes the table, and the step that calls
\* generate_tool_impl writes nothing and changes neither the table nor the
\* sorted items (whose argument lists are the table's).
C10_TableReadOnly ==
    [][ /\ run' = run => (TOOL_MAPPINGS' = TOOL_MAPPINGS /\ decl' = decl)
        /\ (pc = "for" /\ pc' = "print") => (stdout' = stdout /\ items' = items) ]_vars

\* a run over an unsorted two-entry table has finished with the table as built
C10_Witness ==
    /\ pc = "done"
    /\ Len(TOOL_MAPPINGS) = 2
    /\ TOOL_MAPPINGS # items
    /\ TOOL_MAPPINGS = DictDisplay(decl)
    /\ Len(calls) = 2

\* C7: run over the table shipped in the script, the generator writes 29
\* registration blocks and its trailer reports 29 tools migrated.
C7_TwentyNineTools ==
    pc = "done" =>
        /\ Len(Blocks(stdout)) = 29
        /\ TrailerCount(stdout[Len(stdout)]) = 29

====
